---------------------------- MODULE Spec2Model ----------------------------
(***************************************************************************)
(* Run mode of reloader (src/cmd_run.go): the change aggregator            *)
(* receiveWatchChanges, the build/process manager appManager with its      *)
(* stop protocol stopProcess, and the child processes they supervise       *)
(* (Spec, FairSpec).  Test mode (src/cmd_test_.go): the change-forwarding  *)
(* task and the runner task (TestSpec).                                    *)
(*                                                                         *)
(* Every goroutine is a process of the model.  A step of a goroutine runs  *)
(* from one blocking point (select, channel operation, timer, external     *)
(* command) to the next.  The filesystem watcher, the build command, the   *)
(* child binary, the clock and the interrupt of the user are environment.  *)
(***************************************************************************)
EXTENDS Naturals, Sequences, FiniteSets

(***************************************************************************)
(* Bounds of the model.                                                    *)
(***************************************************************************)
\* The counter of test runs saturates here (observation only).
MaxRuns == 3
\* The counter of changes forwarded during a test run saturates here
\* (observation only).
MaxDuring == 2
\* Process slots: identities a started child can take.  A slot is reused
\* once the completion of its process has been read from runerr.
MaxProcs == 2
\* The change counter of a burst saturates here (observation only).
MaxBurst == 2
\* The counter of consecutive handled exits saturates here (observation only).
MaxFails == 4

(***************************************************************************)
(* Program constants.                                                      *)
(***************************************************************************)
\* restart := make(chan empty, 1)
RestartCap == 1
\* runerr := make(chan error, 1)
RunerrCap == 1
\* reload := make(chan bool, 1)  (src/cmd_test_.go)
ReloadCap == 1
\* secs := 1 * time.Second, and the reset after a successful build
FloorSecs == 1
\* if secs > 8*time.Second { secs = 8 * time.Second }
CeilSecs == 8

\* Extensions of the changed paths the watcher reports (filepath.Ext).
Exts == {".go", ".yml", ".txt"}
\* flagRestartExts, as in the README: reloader run ... -e .json -e .yml
RestartExts == {".json", ".yml"}

Pids == 1..MaxProcs
NoCmd == 0

VARIABLES
  ctxDone,        \* the root context of the errgroup is cancelled
  shouldRestart,  \* flagRestart
  \* receiveWatchChanges
  rwcPc,          \* "select" | "drain" (blocked on <-waitNextChange.C) | "done"
                  \* | "off" (test mode)
  buildPending,
  waitNextChange, \* "nil" | "set"
  timerActive,    \* the runtime timer is armed
  timerC,         \* values buffered in waitNextChange.C (capacity 1)
  \* channels
  restart,        \* buffered channel; each signal carries its emitter
  runerr,         \* buffered channel of completions (the pid of the process)
  \* appManager
  amPc,           \* "initBuild" | "select" | "gotRebuild" | "stop" | "build"
                  \* | "backoff" | "emit" | "done" | "off" (test mode)
  amErr,          \* appManager returned a non-nil error
  cmd,            \* the recorded process, NoCmd for nil
  secs,           \* the backoff duration, in seconds
  caller,         \* which case runs stopProcess: "rebuild" | "restart" | "none"
  sp,             \* the stopProcess call in flight: g1..g4 its goroutines
                  \* returned, scope its context cancelled, err the error
                  \* of the group, t its clock, got the completion received;
                  \* notice, kill, sig, kerr observe what it did
  \* children
  procs,          \* pid -> "free" | "running" | "killed" | "exited" | "reported"
  \* observation of the run (history, read by the properties only)
  burstN,         \* classified changes of the current or last burst
  burstGo,        \* a .go change is among them
  burstRst,       \* a restart-extension change is among them
  burstSends,     \* send attempts made for that burst
  lastFlush,      \* "none" | "rebuild" | "restart": the decision of its flush
  burstOpen,      \* a classified change was received and not flushed yet
  ignoredLast,    \* the last step of the task received a change that is
                  \* neither .go nor of a restart extension
  rearm,          \* how the last change of the open burst armed the timer:
                  \* "new" | "stopped" | "drained" | "blocked"; else "none"
  fails,          \* handled exits since the last successful rebuild
  lastBuild,      \* the buildApp call that returned in the last case
                  \* appManager ran: kind "init" | "rebuild", out its outcome
  restartBy,      \* emitter of the restart signal taken in that case
  \* test mode (src/cmd_test_.go); its tasks are "off" in run mode
  testCtxDone,    \* the context of the errgroup of test mode is cancelled
  reload,         \* buffered channel; each signal carries its sender:
                  \* "first" (the runner itself) | "change" (the forwarder)
  fwdPc,          \* the change-forwarding task: "select" | "done" | "off"
  runPc,          \* the runner task: "first" (at reload <- true) | "select"
                  \* | "run" (inside cmd.Run) | "done" | "off"
  runFailed,      \* the runner task returned a non-nil error
  \* observation of test mode
  testsRun,       \* test commands started
  changesDuring,  \* changes forwarded while the current or last test
                  \* command was running
  lastTest        \* how the test command ended: "ok" | "exit" (an
                  \* *exec.ExitError) | "other"; "none" before the first
                  \* command and while one is running

vars == <<ctxDone, shouldRestart, rwcPc, buildPending, waitNextChange,
          timerActive, timerC, restart, runerr, amPc, amErr, cmd, secs,
          caller, sp, procs, burstN, burstGo, burstRst, burstSends,
          lastFlush, burstOpen, ignoredLast, rearm, fails, lastBuild, restartBy,
          testCtxDone, reload, fwdPc, runPc, runFailed,
          testsRun, changesDuring, lastTest>>

testVars == <<testCtxDone, reload, fwdPc, runPc, runFailed,
              testsRun, changesDuring, lastTest>>

rwcVars == <<rwcPc, buildPending, waitNextChange, timerActive, timerC>>
obsBurst == <<burstN, burstGo, burstRst, burstSends, lastFlush, burstOpen,
              ignoredLast, rearm>>
obsAm == <<fails, lastBuild, restartBy>>
amVars == <<amPc, amErr, cmd, secs, caller, sp>>

Min(a, b) == IF a < b THEN a ELSE b

(***************************************************************************)
(* Channels.                                                               *)
(***************************************************************************)
\* select { case ch <- v: default: } on a buffered channel with no parked
\* receiver: accepted when the buffer has room, dropped otherwise.
TrySend(ch, cap, v) == IF Len(ch) < cap THEN Append(ch, v) ELSE ch

\* appManager is parked in its select: no case of it is ready.  Only then an
\* unbuffered send with a default branch (rebuild) finds a receiver.
AMParked == /\ amPc = "select"
            /\ ~ctxDone
            /\ restart = <<>>
            /\ runerr = <<>>

(***************************************************************************)
(* The stop protocol's state.                                              *)
(***************************************************************************)
SpIdle == [g1 |-> TRUE, g2 |-> TRUE, g3 |-> TRUE, g4 |-> TRUE,
           scope |-> FALSE, err |-> "nil", t |-> 0,
           notice |-> FALSE, kill |-> FALSE, got |-> NoCmd,
            sig |-> "none", kerr |-> "none"]

\* stopProcess(ctx, cmd, runerr) with cmd != nil: four goroutines start.
SpStart == [g1 |-> FALSE, g2 |-> FALSE, g3 |-> FALSE, g4 |-> FALSE,
            scope |-> FALSE, err |-> "nil", t |-> 0,
            notice |-> FALSE, kill |-> FALSE, got |-> NoCmd,
            sig |-> "none", kerr |-> "none"]

\* The context the goroutines of stopProcess select on: derived from the root.
SpCtxDone == sp.scope \/ ctxDone

\* errgroup: the first non-nil error is kept and cancels the group's context.
SpFail(s, e) == IF e # "nil" /\ s.err = "nil"
                THEN [s EXCEPT !.err = e, !.scope = TRUE]
                ELSE s

\* os.Process.Signal / Kill on a process whose Wait has returned yields
\* os.ErrProcessDone.
Reaped(p) == procs[p] \in {"reported", "free"}
Alive(p) == procs[p] \in {"running", "killed"}

\* Variant: the wait does not cover the goroutine that receives the completion.
stopProcessDone_NoCompletion == sp.g1 /\ sp.g3 /\ sp.g4

\* grp.Wait() returns once the four goroutines have returned.
stopProcessDone == sp.g1 /\ sp.g2 /\ sp.g3 /\ sp.g4

\* Variant: os.ErrProcessDone is returned like any other error.
stopProcessResult_NoDoneCheck == IF sp.err # "nil" THEN "err" ELSE "nil"

\* if errors.Is(err, os.ErrProcessDone) { return nil }
stopProcessResult == IF sp.err = "err" THEN "err" ELSE "nil"

FreePids == {p \in Pids : procs[p] = "free"}
FirstFree == CHOOSE p \in FreePids : \A q \in FreePids : p <= q

\* Observation: no build returned in the last case appManager ran.
NoBuild == [kind |-> "none", out |-> "none"]

(***************************************************************************)
(* Initial state: RunE has made the channels and started the tasks;        *)
(* appManager is in its first buildApp call.                               *)
(***************************************************************************)
Init ==
  /\ ctxDone = FALSE
  /\ shouldRestart \in BOOLEAN
  /\ rwcPc = "select"
  /\ buildPending = FALSE
  /\ waitNextChange = "nil"
  /\ timerActive = FALSE
  /\ timerC = 0
  /\ restart = <<>>
  /\ runerr = <<>>
  /\ amPc = "initBuild"
  /\ amErr = FALSE
  /\ cmd = NoCmd
  /\ secs = FloorSecs
  /\ caller = "none"
  /\ sp = SpIdle
  /\ procs = [p \in Pids |-> "free"]
  /\ burstN = 0
  /\ burstGo = FALSE
  /\ burstRst = FALSE
  /\ burstSends = 0
  /\ lastFlush = "none"
  /\ fails = 0
  /\ lastBuild = NoBuild
  /\ burstOpen = FALSE
  /\ rearm = "none"
  /\ ignoredLast = FALSE
  /\ restartBy = "none"
  /\ testCtxDone = FALSE
  /\ reload = <<>>
  /\ fwdPc = "off"
  /\ runPc = "off"
  /\ runFailed = FALSE
  /\ testsRun = 0
  /\ changesDuring = 0
  /\ lastTest = "none"


(***************************************************************************)
(* receiveWatchChanges                                                     *)
(***************************************************************************)
\* Variant: a change of any other extension asks for a restart.
Classify_NoIgnore(ext) == IF ext = ".go" THEN "build" ELSE "restart"

\* The branch a change takes: filepath.Ext(change) == ".go", else
\* slices.Contains(restartExts, ext), else ignored (continue).
Classify(ext) == IF ext = ".go" THEN "build"
                 ELSE IF ext \in RestartExts THEN "restart"
                 ELSE "ignore"

\* Variant: the flag follows the last change instead of accumulating.
MarkBuild_LastWins(bp, ext) == Classify(ext) = "build"

\* Variant: every classified change asks for a build.
MarkBuild_Always(bp, ext) == TRUE

\* buildPending after a classified change.
MarkBuild(bp, ext) == IF Classify(ext) = "build" THEN TRUE ELSE bp

\* Variant: Reset without the receive of the buffered fire.
ArmTimer_NoDrain(w, active, c) ==
  IF w = "nil"
  THEN [w |-> "set", active |-> TRUE, c |-> 0, pc |-> "select", how |-> "new"]
  ELSE IF active
  THEN [w |-> "set", active |-> TRUE, c |-> c, pc |-> "select", how |-> "stopped"]
  ELSE [w |-> "set", active |-> TRUE, c |-> c, pc |-> "select", how |-> "drained"]

\* The timer after a classified change: time.NewTimer when there is none;
\* otherwise Stop, a receive of the buffered fire when Stop reports that the
\* timer already expired, and Reset.  The receive blocks ("drain") when Stop
\* reports false on an empty channel.
\* how names the path taken, for the observation.
ArmTimer(w, active, c) ==
  IF w = "nil"
  THEN [w |-> "set", active |-> TRUE, c |-> 0, pc |-> "select", how |-> "new"]
  ELSE IF active
  THEN [w |-> "set", active |-> TRUE, c |-> c, pc |-> "select", how |-> "stopped"]
  ELSE IF c > 0
  THEN [w |-> "set", active |-> TRUE, c |-> c - 1, pc |-> "select", how |-> "drained"]
  ELSE [w |-> "set", active |-> FALSE, c |-> c, pc |-> "drain", how |-> "blocked"]

\* waitNextChange after the case <-ch: waitNextChange = nil
TimerAfterFlush == "nil"

\* Variant: the restart send is not in an else branch.
FlushSignals_NoElse(bp) == IF bp THEN {"rebuild", "restart"} ELSE {"restart"}

\* The signals a flush tries to send.
FlushSignals(bp) == IF bp THEN {"rebuild"} ELSE {"restart"}

FlushName(d) == IF d = {"rebuild"} THEN "rebuild"
                ELSE IF d = {"restart"} THEN "restart"
                ELSE IF d = {} THEN "none" ELSE "both"

\* case change := <-changes: the watcher hands over the path of a change.
\* watch.Files sends until the context is cancelled.
Change(ext) ==
  /\ rwcPc = "select"
  /\ ~ctxDone
  /\ ignoredLast' = (ext # ".go" /\ ext \notin RestartExts)
  /\ IF Classify(ext) = "ignore"
     THEN UNCHANGED <<rwcVars, burstN, burstGo, burstRst, burstSends,
                      lastFlush, burstOpen, rearm>>
     ELSE LET a == ArmTimer(waitNextChange, timerActive, timerC) IN
          /\ buildPending' = MarkBuild(buildPending, ext)
          /\ waitNextChange' = a.w
          /\ timerActive' = a.active
          /\ timerC' = a.c
          /\ rwcPc' = a.pc
          /\ burstOpen' = TRUE
          /\ rearm' = a.how
          /\ burstN' = IF burstOpen THEN Min(burstN + 1, MaxBurst) ELSE 1
          /\ burstGo' = IF burstOpen THEN burstGo \/ ext = ".go" ELSE ext = ".go"
          /\ burstRst' = IF burstOpen THEN burstRst \/ ext # ".go" ELSE ext # ".go"
          /\ burstSends' = IF burstOpen THEN burstSends ELSE 0
          /\ lastFlush' = IF burstOpen THEN lastFlush ELSE "none"
  /\ UNCHANGED <<ctxDone, shouldRestart, testVars, restart, runerr, amVars, procs, obsAm>>

\* The runtime fires the timer: a non-blocking send on its channel.
TimerFire ==
  /\ timerActive
  /\ timerActive' = FALSE
  /\ timerC' = Min(timerC + 1, 1)
  /\ ignoredLast' = FALSE
  /\ UNCHANGED <<ctxDone, shouldRestart, testVars, rwcPc, buildPending,
                 waitNextChange, restart, runerr, amVars, procs, burstN,
                 burstGo, burstRst, burstSends, lastFlush, burstOpen, rearm,
                 obsAm>>

\* case <-ch: the flush.  The rebuild channel is unbuffered: its send with a
\* default branch is taken only by an appManager parked in its select, which
\* wakes up in the rebuild case.  The restart channel is buffered.
Flush ==
  /\ rwcPc = "select"
  /\ waitNextChange = "set"
  /\ timerC > 0
  /\ LET d == FlushSignals(buildPending)
         handed == "rebuild" \in d /\ AMParked
         r == IF "restart" \in d THEN TrySend(restart, RestartCap, "agg")
              ELSE restart
     IN
     /\ timerC' = timerC - 1
     /\ waitNextChange' = TimerAfterFlush
     /\ buildPending' = IF buildPending THEN FALSE ELSE buildPending
     /\ amPc' = IF handed THEN "gotRebuild" ELSE amPc
     /\ restart' = r
     /\ burstOpen' = FALSE
     /\ rearm' = "none"
     /\ ignoredLast' = FALSE
     /\ burstSends' = Min(burstSends + Cardinality(d), 2)
     /\ lastFlush' = FlushName(d)
  /\ UNCHANGED <<ctxDone, shouldRestart, testVars, rwcPc, timerActive, runerr, amErr,
                 cmd, secs, caller, sp, procs, burstN, burstGo, burstRst,
                 obsAm>>

\* case <-ctx.Done(): return nil
RwcReturn ==
  /\ rwcPc = "select"
  /\ ctxDone
  /\ rwcPc' = "done"
  /\ UNCHANGED <<ctxDone, shouldRestart, testVars, buildPending, waitNextChange,
                 timerActive, timerC, restart, runerr, amVars, procs,
                 obsBurst, obsAm>>

(***************************************************************************)
(* buildApp and startProcess                                               *)
(***************************************************************************)
\* Outcomes of the go install command: "ok", "failed" (an *exec.ExitError,
\* reported as errBuildFailed), "fatal" (any other error of cmd.Run).
BuildOutcomes == {"ok", "failed", "fatal"}

\* Variant: the send is made whatever the command returned.
buildApp_SendAlways(out, ch, by) == TrySend(ch, RestartCap, by)

\* The restart channel after buildApp: the non-blocking send after a
\* successful command, nothing on the error paths.  by names the call for
\* the observation: "init" at startup, "build" in the rebuild case.
buildApp(out, ch, by) == IF out = "ok" THEN TrySend(ch, RestartCap, by) ELSE ch

\* secs after the build of the rebuild case: reset after a successful build.
SecsAfterBuild(out, s) == IF out = "ok" THEN FloorSecs ELSE s

\* Variant: the failure branch falls through instead of `continue`.
RebuildEmit_NoContinue(out, ch) == TrySend(ch, RestartCap, "build")

\* The restart channel after the rebuild case has handled the build: on
\* success the second non-blocking send of the case; `continue` on failure.
RebuildEmit(out, ch) == IF out = "ok" THEN TrySend(ch, RestartCap, "build") ELSE ch

\* Variant: the doubling without the ceiling.
NextSecs_NoCeiling(s) == s * 2

\* secs = secs * 2; if secs > 8*time.Second { secs = 8 * time.Second }
NextSecs(s) == IF s * 2 > CeilSecs THEN CeilSecs ELSE s * 2

\* appManager returns a non-nil error: the errgroup cancels the root context.
AMFail ==
  /\ amPc' = "done"
  /\ amErr' = TRUE
  /\ ctxDone' = TRUE
  /\ caller' = "none"
  /\ sp' = SpIdle

\* startProcess: cmd.Start() and the goroutine that waits for the process.
\* Start reports the context's error when the context is already done;
\* otherwise the binary starts or Start fails (ok).
startProcess(ok) ==
  IF ok
  THEN /\ ~ctxDone
       /\ FreePids # {}
       /\ procs' = [procs EXCEPT ![FirstFree] = "running"]
       /\ cmd' = FirstFree
       /\ amPc' = "select"
       /\ caller' = "none"
       /\ sp' = SpIdle
       /\ UNCHANGED <<ctxDone, amErr>>
  ELSE /\ AMFail
       /\ UNCHANGED <<procs, cmd>>

(***************************************************************************)
(* appManager                                                              *)
(***************************************************************************)
\* The first buildApp call returns.  errBuildFailed is tolerated.
AMInitBuild(out) ==
  /\ amPc = "initBuild"
  /\ IF out = "fatal"
     THEN /\ AMFail
          /\ UNCHANGED restart
     ELSE /\ restart' = buildApp(out, restart, "init")
          /\ amPc' = "select"
          /\ UNCHANGED <<ctxDone, amErr, caller, sp>>
  /\ lastBuild' = [kind |-> "init", out |-> out]
  /\ UNCHANGED <<shouldRestart, testVars, rwcVars, runerr, cmd, secs, procs, obsBurst,
                 fails, restartBy>>

\* case <-ctx.Done(): return nil
AMReturn ==
  /\ amPc = "select"
  /\ ctxDone
  /\ amPc' = "done"
  /\ lastBuild' = NoBuild
  /\ restartBy' = "none"
  /\ UNCHANGED <<ctxDone, shouldRestart, testVars, rwcVars, restart, runerr, amErr, cmd,
                 secs, caller, sp, procs, obsBurst, fails>>

\* case <-rebuild: stopProcess(ctx, cmd, runerr), which returns at once for
\* a nil cmd; then cmd = nil and buildApp starts.
AMRebuild ==
  /\ amPc = "gotRebuild"
  /\ IF cmd = NoCmd
     THEN /\ amPc' = "build"
          /\ UNCHANGED <<caller, sp>>
     ELSE /\ amPc' = "stop"
          /\ caller' = "rebuild"
          /\ sp' = SpStart
  /\ lastBuild' = NoBuild
  /\ restartBy' = "none"
  /\ UNCHANGED <<ctxDone, shouldRestart, testVars, rwcVars, restart, runerr, amErr, cmd,
                 secs, procs, obsBurst, fails>>

\* The buildApp call of the rebuild case returns.
AMBuildDone(out) ==
  /\ amPc = "build"
  /\ IF out = "fatal"
     THEN /\ AMFail
          /\ UNCHANGED <<restart, secs, fails>>
     ELSE /\ restart' = RebuildEmit(out, buildApp(out, restart, "build"))
          /\ secs' = SecsAfterBuild(out, secs)
          /\ fails' = IF out = "ok" THEN 0 ELSE fails
          /\ amPc' = "select"
          /\ UNCHANGED <<ctxDone, amErr, caller, sp>>
  /\ lastBuild' = [kind |-> "rebuild", out |-> out]
  /\ UNCHANGED <<shouldRestart, testVars, rwcVars, runerr, cmd, procs, obsBurst,
                 restartBy>>

\* case <-restart: stopProcess, then startProcess.  With a nil cmd
\* stopProcess returns at once and the process is started in the same step.
AMRestart(ok) ==
  /\ amPc = "select"
  /\ restart # <<>>
  /\ restart' = Tail(restart)
  /\ restartBy' = Head(restart)
  /\ IF cmd = NoCmd
     THEN startProcess(ok)
     ELSE /\ ok
          /\ amPc' = "stop"
          /\ caller' = "restart"
          /\ sp' = SpStart
          /\ UNCHANGED <<ctxDone, amErr, cmd, procs>>
  /\ lastBuild' = NoBuild
  /\ UNCHANGED <<shouldRestart, testVars, rwcVars, runerr, secs, obsBurst, fails>>

\* Variant: the exit of the child is always followed by the backoff wait.
AfterExit_Always(sr) == "backoff"

\* Where appManager goes after cmd = nil in the runerr case: into the
\* backoff wait if shouldRestart, else back to its select.
AfterExit(sr) == IF sr THEN "backoff" ELSE "select"

\* case appErr := <-runerr: cmd = nil; with shouldRestart the backoff wait.
AMRunerr ==
  /\ amPc = "select"
  /\ runerr # <<>>
  /\ runerr' = Tail(runerr)
  /\ procs' = [procs EXCEPT ![Head(runerr)] = "free"]
  /\ cmd' = NoCmd
  /\ amPc' = AfterExit(shouldRestart)
  /\ lastBuild' = NoBuild
  /\ restartBy' = "none"
  /\ UNCHANGED <<ctxDone, shouldRestart, testVars, rwcVars, restart, amErr, secs,
                 caller, sp, obsBurst, fails>>

\* The backoff select, case <-ctx.Done(): return nil
AMBackoffReturn ==
  /\ amPc = "backoff"
  /\ ctxDone
  /\ amPc' = "done"
  /\ UNCHANGED <<ctxDone, shouldRestart, testVars, rwcVars, restart, runerr, amErr, cmd,
                 secs, caller, sp, procs, obsBurst, obsAm>>

\* The backoff select, case <-time.After(secs); then the doubling.
AMBackoffElapsed ==
  /\ amPc = "backoff"
  /\ ~ctxDone
  /\ secs' = NextSecs(secs)
  /\ fails' = Min(fails + 1, MaxFails)
  /\ amPc' = "emit"
  /\ UNCHANGED <<ctxDone, shouldRestart, testVars, rwcVars, restart, runerr, amErr, cmd,
                 caller, sp, procs, obsBurst, lastBuild, restartBy>>

\* restart <- empty{}: a blocking send.
AMEmit ==
  /\ amPc = "emit"
  /\ Len(restart) < RestartCap
  /\ restart' = Append(restart, "backoff")
  /\ amPc' = "select"
  /\ UNCHANGED <<ctxDone, shouldRestart, testVars, rwcVars, runerr, amErr, cmd, secs,
                 caller, sp, procs, obsBurst, obsAm>>

(***************************************************************************)
(* stopProcess on a recorded process: its four goroutines and grp.Wait.    *)
(***************************************************************************)
\* Outcomes of cmd.Process.Signal and cmd.Process.Kill: "nil",
\* "done" (os.ErrProcessDone) and "err" (any other error of the system call).
SignalOutcomes(p) == IF Reaped(p) THEN {"done"} ELSE {"nil", "err"}

\* Goroutine 1: cmd.Process.Signal(os.Interrupt)
SPSignal(e) ==
  /\ amPc = "stop"
  /\ ~sp.g1
  /\ e \in SignalOutcomes(cmd)
  /\ sp' = SpFail([sp EXCEPT !.g1 = TRUE, !.sig = e], e)
  /\ UNCHANGED <<ctxDone, shouldRestart, testVars, rwcVars, restart, runerr, amPc, amErr,
                 cmd, secs, caller, procs, obsBurst, obsAm>>

\* Goroutine 2: appErr := <-runerr; cancel()
SPCompletion ==
  /\ amPc = "stop"
  /\ ~sp.g2
  /\ runerr # <<>>
  /\ runerr' = Tail(runerr)
  /\ procs' = [procs EXCEPT ![Head(runerr)] = "free"]
  /\ sp' = [sp EXCEPT !.g2 = TRUE, !.scope = TRUE, !.got = Head(runerr)]
  /\ UNCHANGED <<ctxDone, shouldRestart, testVars, rwcVars, restart, amPc, amErr, cmd,
                 secs, caller, obsBurst, obsAm>>

\* The clock of the stop protocol: 0, then 3 s (t = 1), then 15 s (t = 2)
\* after its start.  The notice is due 12 s before the kill.
SPTick ==
  /\ amPc = "stop"
  /\ ~SpCtxDone
  /\ \/ sp.t = 0 /\ (~sp.g3 \/ ~sp.g4)
     \/ sp.t = 1 /\ sp.g3 /\ ~sp.g4
  /\ sp' = [sp EXCEPT !.t = sp.t + 1]
  /\ UNCHANGED <<ctxDone, shouldRestart, testVars, rwcVars, restart, runerr, amPc, amErr,
                 cmd, secs, caller, procs, obsBurst, obsAm>>

\* Variant: the notice does not wait for its delay.
NoticeDue_AtOnce == TRUE

\* The 3 s timer of the notice has fired.  The clock stops with the context
\* (SPTick), so it fired before any cancellation.
NoticeDue == sp.t >= 1

\* The 15 s timer of the kill has fired, likewise before any cancellation.
KillDue == sp.t = 2

\* Goroutine 3, parked in its select, is woken by the first of its events:
\* case <-time.After(3s) logs the notice, case <-ctx.Done() returns.
SPNotice ==
  /\ amPc = "stop"
  /\ ~sp.g3
  /\ IF NoticeDue
     THEN sp' = [sp EXCEPT !.g3 = TRUE, !.notice = TRUE]
     ELSE /\ SpCtxDone
          /\ sp' = [sp EXCEPT !.g3 = TRUE]
  /\ UNCHANGED <<ctxDone, shouldRestart, testVars, rwcVars, restart, runerr, amPc, amErr,
                 cmd, secs, caller, procs, obsBurst, obsAm>>

\* Goroutine 4, case <-ctx.Done(): return nil
SPKillSkip ==
  /\ amPc = "stop"
  /\ ~sp.g4
  /\ ~KillDue
  /\ SpCtxDone
  /\ sp' = [sp EXCEPT !.g4 = TRUE]
  /\ UNCHANGED <<ctxDone, shouldRestart, testVars, rwcVars, restart, runerr, amPc, amErr,
                 cmd, secs, caller, procs, obsBurst, obsAm>>

\* Goroutine 4, case <-time.After(15s): return cmd.Process.Kill().  The
\* goroutine woken by its timer calls Kill even if the context has been
\* cancelled since.
SPKill(e) ==
  /\ amPc = "stop"
  /\ ~sp.g4
  /\ KillDue
  /\ e \in SignalOutcomes(cmd)
  /\ procs' = IF e = "nil" /\ procs[cmd] = "running"
              THEN [procs EXCEPT ![cmd] = "killed"] ELSE procs
  /\ sp' = SpFail([sp EXCEPT !.g4 = TRUE, !.kill = TRUE, !.kerr = e], e)
  /\ UNCHANGED <<ctxDone, shouldRestart, testVars, rwcVars, restart, runerr, amPc, amErr,
                 cmd, secs, caller, obsBurst, obsAm>>

\* grp.Wait() returns and stopProcess with it; the calling case goes on:
\* the rebuild case with cmd = nil and buildApp, the restart case with
\* startProcess.
SPReturn(ok) ==
  /\ amPc = "stop"
  /\ stopProcessDone
  /\ IF stopProcessResult = "err"
     THEN /\ ok
          /\ AMFail
          /\ UNCHANGED <<cmd, procs>>
     ELSE IF caller = "rebuild"
     THEN /\ ok
          /\ cmd' = NoCmd
          /\ amPc' = "build"
          /\ caller' = "none"
          /\ sp' = SpIdle
          /\ UNCHANGED <<ctxDone, amErr, procs>>
     ELSE startProcess(ok)
  /\ UNCHANGED <<shouldRestart, testVars, rwcVars, restart, runerr, secs, obsBurst,
                 obsAm>>

(***************************************************************************)
(* The child processes and the user.                                       *)
(***************************************************************************)
\* A running process terminates: on its own, on the interrupt, on a kill
\* (that of stopProcess, or that of exec.CommandContext once the root context
\* is cancelled).
ChildExit(p) ==
  /\ Alive(p)
  /\ procs' = [procs EXCEPT ![p] = "exited"]
  /\ UNCHANGED <<ctxDone, shouldRestart, testVars, rwcVars, restart, runerr, amVars,
                 obsBurst, obsAm>>

\* The goroutine of startProcess: cmd.Wait() returns, runerr <- err.
ChildReport(p) ==
  /\ procs[p] = "exited"
  /\ Len(runerr) < RunerrCap
  /\ runerr' = Append(runerr, p)
  /\ procs' = [procs EXCEPT ![p] = "reported"]
  /\ UNCHANGED <<ctxDone, shouldRestart, testVars, rwcVars, restart, amVars, obsBurst,
                 obsAm>>

\* The context of the command is cancelled from outside (Ctrl-C).
Cancel ==
  /\ ~ctxDone
  /\ ctxDone' = TRUE
  /\ UNCHANGED <<shouldRestart, testVars, rwcVars, restart, runerr, amVars, procs,
                 obsBurst, obsAm>>

Next ==
  \/ \E ext \in Exts : Change(ext)
  \/ TimerFire
  \/ Flush
  \/ RwcReturn
  \/ \E out \in BuildOutcomes : AMInitBuild(out)
  \/ AMReturn
  \/ AMRebuild
  \/ \E out \in BuildOutcomes : AMBuildDone(out)
  \/ \E ok \in BOOLEAN : AMRestart(ok)
  \/ AMRunerr
  \/ AMBackoffReturn
  \/ AMBackoffElapsed
  \/ AMEmit
  \/ \E e \in {"nil", "done", "err"} : SPSignal(e)
  \/ SPCompletion
  \/ SPTick
  \/ SPNotice
  \/ SPKillSkip
  \/ \E e \in {"nil", "done", "err"} : SPKill(e)
  \/ \E ok \in BOOLEAN : SPReturn(ok)
  \/ \E p \in Pids : ChildExit(p)
  \/ \E p \in Pids : ChildReport(p)
  \/ Cancel

Spec == Init /\ [][Next]_vars

\* A process that was killed terminates: by the Kill of stopProcess, or by
\* exec.CommandContext once the root context is cancelled.
KilledExit == \E p \in Pids : (procs[p] = "killed" \/ ctxDone) /\ ChildExit(p)

\* The scheduling the stop protocol relies on: its goroutines run, its
\* timers elapse, a killed process terminates and cmd.Wait reports it.  A
\* process that was only interrupted may or may not terminate.
StopFairness ==
  /\ WF_vars(\E e \in {"nil", "done", "err"} : SPSignal(e))
  /\ WF_vars(SPCompletion)
  /\ WF_vars(SPTick)
  /\ WF_vars(SPNotice)
  /\ WF_vars(SPKillSkip)
  /\ WF_vars(\E e \in {"nil", "done", "err"} : SPKill(e))
  /\ WF_vars(\E ok \in BOOLEAN : SPReturn(ok))
  /\ WF_vars(KilledExit)
  /\ WF_vars(\E p \in Pids : ChildReport(p))

FairSpec == Spec /\ StopFairness

(***************************************************************************)
(* Test mode (src/cmd_test_.go): the watcher, the change-forwarding task   *)
(* and the runner task of cmdTest.RunE.  The tasks of run mode are off.    *)
(***************************************************************************)
runVars == <<ctxDone, shouldRestart, rwcVars, restart, runerr, amVars, procs,
             obsBurst, obsAm>>

TestInit ==
  /\ ctxDone = FALSE
  /\ shouldRestart = FALSE
  /\ rwcPc = "off"
  /\ buildPending = FALSE
  /\ waitNextChange = "nil"
  /\ timerActive = FALSE
  /\ timerC = 0
  /\ restart = <<>>
  /\ runerr = <<>>
  /\ amPc = "off"
  /\ amErr = FALSE
  /\ cmd = NoCmd
  /\ secs = FloorSecs
  /\ caller = "none"
  /\ sp = SpIdle
  /\ procs = [p \in Pids |-> "free"]
  /\ burstN = 0
  /\ burstGo = FALSE
  /\ burstRst = FALSE
  /\ burstSends = 0
  /\ lastFlush = "none"
  /\ burstOpen = FALSE
  /\ rearm = "none"
  /\ ignoredLast = FALSE
  /\ fails = 0
  /\ lastBuild = NoBuild
  /\ restartBy = "none"
  /\ testCtxDone = FALSE
  /\ reload = <<>>
  /\ fwdPc = "select"
  /\ runPc = "first"
  /\ runFailed = FALSE
  /\ testsRun = 0
  /\ changesDuring = 0
  /\ lastTest = "none"

\* Outcomes of cmd.Run() of the test command: nil ("ok"), an
\* *exec.ExitError ("exit": the tests failed, or the command was killed by
\* exec.CommandContext), any other error ("other": the command could not
\* be started).
TestOutcomes == {"ok", "exit", "other"}

\* Variant: a failed test command is rerun at once.
AfterTest_Retry(out, done) ==
  IF out = "ok" THEN "select"
  ELSE IF done THEN "done"
  ELSE IF out = "exit" THEN "run"
  ELSE "done"

\* Where the runner goes when cmd.Run() has returned: err == nil falls out
\* of the case; ctx.Err() != nil returns nil; an *exec.ExitError continues;
\* any other error is returned.
AfterTest(out, done) ==
  IF out = "ok" THEN "select"
  ELSE IF done THEN "done"
  ELSE IF out = "exit" THEN "select"
  ELSE "done"

\* The error the runner returns with: non-nil only for an error of cmd.Run
\* that is no *exec.ExitError, with the context not cancelled.
TestFails(out, done) == out = "other" /\ ~done

\* Variant: the forwarder's signals queue up behind the pending one.
ForwardChange_Queued(ch) ==
  IF Len(ch) < ReloadCap + 1 THEN Append(ch, "change") ELSE ch

\* The reload channel after select { case reload <- true: default: }.
ForwardChange(ch) == TrySend(ch, ReloadCap, "change")

\* case change := <-changes, then the non-blocking send on reload.
\* watch.Recursive sends until the context is cancelled.
TChange ==
  /\ fwdPc = "select"
  /\ ~testCtxDone
  /\ reload' = ForwardChange(reload)
  /\ changesDuring' = IF runPc = "run" THEN Min(changesDuring + 1, MaxDuring)
                      ELSE changesDuring
  /\ UNCHANGED <<runVars, testCtxDone, fwdPc, runPc, runFailed, testsRun,
                 lastTest>>

\* The forwarder, case <-ctx.Done(): return nil
TFwdReturn ==
  /\ fwdPc = "select"
  /\ testCtxDone
  /\ fwdPc' = "done"
  /\ UNCHANGED <<runVars, testCtxDone, reload, runPc, runFailed, testsRun,
                 changesDuring, lastTest>>

\* The runner: reload <- true, a blocking send, before its loop.
TFirst ==
  /\ runPc = "first"
  /\ Len(reload) < ReloadCap
  /\ reload' = Append(reload, "first")
  /\ runPc' = "select"
  /\ UNCHANGED <<runVars, testCtxDone, fwdPc, runFailed, testsRun,
                 changesDuring, lastTest>>

\* The runner, case <-ctx.Done(): return nil
TReturn ==
  /\ runPc = "select"
  /\ testCtxDone
  /\ runPc' = "done"
  /\ UNCHANGED <<runVars, testCtxDone, reload, fwdPc, runFailed, testsRun,
                 changesDuring, lastTest>>

\* The runner, case <-reload: the test command is built and cmd.Run() called.
TStart ==
  /\ runPc = "select"
  /\ reload # <<>>
  /\ reload' = Tail(reload)
  /\ runPc' = "run"
  /\ testsRun' = Min(testsRun + 1, MaxRuns)
  /\ changesDuring' = 0
  /\ lastTest' = "none"
  /\ UNCHANGED <<runVars, testCtxDone, fwdPc, runFailed>>

\* cmd.Run() returns.  A returned error makes the errgroup cancel the context.
TFinish(out) ==
  /\ runPc = "run"
  /\ runPc' = AfterTest(out, testCtxDone)
  /\ runFailed' = TestFails(out, testCtxDone)
  /\ testCtxDone' = (testCtxDone \/ TestFails(out, testCtxDone))
  /\ lastTest' = out
  /\ UNCHANGED <<runVars, reload, fwdPc, testsRun, changesDuring>>

\* The context is cancelled from outside (Ctrl-C), or the watcher fails.
TCancel ==
  /\ ~testCtxDone
  /\ testCtxDone' = TRUE
  /\ UNCHANGED <<runVars, reload, fwdPc, runPc, runFailed, testsRun,
                 changesDuring, lastTest>>

TestNext ==
  \/ TChange
  \/ TFwdReturn
  \/ TFirst
  \/ TReturn
  \/ TStart
  \/ \E out \in TestOutcomes : TFinish(out)
  \/ TCancel

TestSpec == TestInit /\ [][TestNext]_vars

(***************************************************************************)
(* Properties.                                                             *)
(***************************************************************************)
\* A step that starts a child process.
StartStep == \E p \in Pids : procs[p] = "free" /\ procs'[p] = "running"

\* A step in which receiveWatchChanges flushes a burst.
FlushStep == burstOpen /\ ~burstOpen'

AliveCount == Cardinality({p \in Pids : Alive(p)})

RECURSIVE Pow2(_)
Pow2(n) == IF n = 0 THEN 1 ELSE 2 * Pow2(n - 1)

\* appManager is between the reception of a rebuild signal (or its start-up)
\* and the return of the build.
BuildInFlight == \/ amPc \in {"initBuild", "gotRebuild", "build"}
                 \/ amPc = "stop" /\ caller = "rebuild"

(* C1: at most one child process is alive in every reachable state; a      *)
(* process is started only when none is recorded or stopProcess on the     *)
(* recorded one has returned nil; and stopProcess returns nil only after   *)
(* it received the completion of the recorded process, which has           *)
(* terminated.                                                             *)
C1_AtMostOneChild ==
  /\ [](AliveCount <= 1)
  /\ [][/\ StartStep =>
             /\ AliveCount = 0
             /\ \/ cmd = NoCmd
                \/ /\ amPc = "stop"
                   /\ stopProcessResult = "nil"
                   /\ sp.got = cmd
        /\ (amPc = "stop" /\ amPc' # "stop" /\ stopProcessResult = "nil") =>
             /\ sp.got = cmd
             /\ procs[cmd] = "free"]_vars

\* The stop protocol force-killed the recorded process, received its
\* completion and is about to return nil to the restart case.
C1_Witness ==
  /\ amPc = "stop"
  /\ caller = "restart"
  /\ stopProcessDone
  /\ stopProcessResult = "nil"
  /\ sp.kill
  /\ sp.got = cmd

(* C2: the rebuild signal of a flush is dropped only when a rebuild        *)
(* request is already pending at appManager, that is received and its      *)
(* build not yet begun.  (The rebuild channel is unbuffered: it never      *)
(* holds a pending signal itself.)                                         *)
C2_RebuildDroppedOnlyWhenPending ==
  [][(FlushStep /\ buildPending) =>
       \/ amPc' = "gotRebuild"
       \/ amPc = "stop" /\ caller = "rebuild"]_vars

(* C3: appManager is never blocked on the restart signal it emits after    *)
(* the backoff wait, whatever the restart channel holds by then.           *)
C3_EmitNeverBlocks == amPc = "emit" => ENABLED AMEmit

(* C4: once the root context is cancelled no task hangs: as long as a      *)
(* task has not returned, some step is possible.                           *)
C4_ShutdownNeverStuck ==
  (ctxDone /\ ~(amPc = "done" /\ rwcPc = "done")) => ENABLED Next

(* C5: the backoff duration is one of 1, 2, 4, 8 seconds; after k handled  *)
(* exits since the last successful rebuild it is min(2^k, 8), so the       *)
(* (k+1)-th wait lasts min(2^k, 8) s; it changes only by the doubling      *)
(* after a backoff wait and by the reset to 1 s of a successful rebuild,   *)
(* which always resets it; a failed rebuild leaves it unchanged.           *)
C5_Backoff ==
  /\ [](secs \in {1, 2, 4, 8} /\ secs = Min(Pow2(fails), 8))
  /\ [][/\ secs' # secs =>
             \/ amPc = "backoff" /\ amPc' = "emit" /\ secs' = Min(2 * secs, 8)
             \/ amPc = "build" /\ lastBuild'.out = "ok"
        /\ (amPc = "build" /\ amPc' # "build" /\ lastBuild'.out = "ok") =>
             secs' = 1
        /\ (amPc = "build" /\ amPc' # "build" /\ lastBuild'.out = "failed") =>
             secs' = secs
        /\ (amPc = "select" /\ amPc' \in {"stop", "select"}) => secs' = secs]_vars

\* The wait after the fifth consecutive exit: 8 s again.
C5_Witness == amPc = "backoff" /\ fails >= 4 /\ secs = 8

(* C6: a burst of classified changes gets exactly one decision: while the  *)
(* burst is open nothing has been sent for it and its flush is armed (the  *)
(* timer is set and is running or has fired, the task is not blocked);     *)
(* once flushed, exactly one send was attempted, a rebuild or a restart.   *)
C6_OneDecisionPerBurst ==
  /\ burstOpen =>
       /\ burstSends = 0
       /\ waitNextChange = "set"
       /\ timerActive \/ timerC > 0
       /\ rwcPc # "drain"
  /\ (~burstOpen /\ burstN > 0) =>
       /\ burstSends = 1
       /\ lastFlush \in {"rebuild", "restart"}

\* A burst of at least two classified changes was flushed with one send.
C6_Witness == ~burstOpen /\ burstN >= 2 /\ burstSends = 1

(* C7: the flush of a burst with a .go change attempts a rebuild signal    *)
(* and no restart signal; the flush of a burst without one attempts a      *)
(* restart signal and no rebuild signal.                                   *)
C7_DecisionOfBurst ==
  /\ burstOpen => (buildPending <=> burstGo)
  /\ (~burstOpen /\ burstN > 0) =>
       lastFlush = IF burstGo THEN "rebuild" ELSE "restart"

\* A flushed burst mixing a .go change with a restart-extension change.
C7_Witness ==
  /\ ~burstOpen
  /\ burstN >= 2
  /\ burstGo
  /\ burstRst
  /\ lastFlush = "rebuild"

(* C8 as claimed: when appManager enters its loop after the initial build, *)
(* successful or failed, a restart signal was attempted (one is pending).  *)
C8_RestartAfterInitialBuild ==
  [][(amPc = "initBuild" /\ amPc' = "select") => restart' # <<>>]_vars

(* C8 amended: after a successful initial build a restart signal is        *)
(* pending when appManager enters its loop; after an initial build that    *)
(* failed recoverably nothing was sent: the restart channel is as it was.  *)
C8_RestartAfterSuccessfulInitialBuild ==
  [][(amPc = "initBuild" /\ amPc' = "select") =>
       /\ lastBuild'.out = "ok" => restart' # <<>>
       /\ lastBuild'.out = "failed" => restart' = restart]_vars

\* appManager in its loop after a failed initial build, no restart pending.
C8_Witness ==
  /\ amPc = "select"
  /\ lastBuild = [kind |-> "init", out |-> "failed"]
  /\ restart = <<>>
  /\ cmd = NoCmd

(* C9: a rebuild whose build fails recoverably sends no restart signal,    *)
(* leaves the backoff duration and the context alone, and appManager is    *)
(* back in its select loop, not returned.                                  *)
C9_FailedRebuild ==
  [][(amPc = "build" /\ amPc' # "build" /\ lastBuild'.out = "failed") =>
       /\ restart' = restart
       /\ secs' = secs
       /\ amPc' = "select"
       /\ ~amErr'
       /\ ctxDone' = ctxDone
       /\ cmd' = NoCmd]_vars

\* appManager back in its loop after a failed rebuild, with a backoff
\* duration above the floor kept.
C9_Witness ==
  /\ amPc = "select"
  /\ lastBuild = [kind |-> "rebuild", out |-> "failed"]
  /\ restart = <<>>
  /\ secs > 1

(* C10: a restart signal emitted for a build is only ever pending after    *)
(* that build returned successfully, and no child is started between the   *)
(* reception of a rebuild signal and the return of its build: a start      *)
(* caused by a build follows the successful return of that build.          *)
C10_StartAfterBuild ==
  /\ []((amPc # "done" /\ restart # <<>> /\ Head(restart) \in {"init", "build"}) =>
          /\ lastBuild.out = "ok"
          /\ amPc = "select")
  /\ [][StartStep =>
          /\ ~BuildInFlight
          /\ restartBy' \in {"init", "build"} => lastBuild.out = "ok"]_vars

\* A child started by the restart signal of a successful rebuild.
C10_Witness ==
  /\ amPc = "select"
  /\ cmd # NoCmd
  /\ procs[cmd] = "running"
  /\ restartBy = "build"

(* C11: the flush of a burst without a .go change leaves a restart signal   *)
(* pending and hands no rebuild to appManager; appManager, processing the  *)
(* aggregator's restart signal, starts the child only with none recorded   *)
(* or after stopProcess on the recorded one is over, with no build         *)
(* returned in between; and a build begins only at start-up or on a        *)
(* rebuild signal, which only the flush of a burst with a .go change       *)
(* hands over.                                                             *)
C11_RestartOnlyBurst ==
  /\ [](restartBy = "agg" => lastBuild = NoBuild /\ amPc # "build")
  /\ [][/\ (FlushStep /\ ~burstGo) =>
             /\ restart' # <<>>
             /\ amPc' = amPc
             /\ lastFlush' = "restart"
        /\ (amPc' = "gotRebuild" /\ amPc # "gotRebuild") => (FlushStep /\ burstGo)
        /\ (amPc' = "build" /\ amPc # "build") =>
             \/ amPc = "gotRebuild"
             \/ amPc = "stop" /\ caller = "rebuild"
        /\ (StartStep /\ restartBy' = "agg") =>
             \/ cmd = NoCmd
             \/ amPc = "stop" /\ caller = "restart" /\ stopProcessDone]_vars

\* The restart signal of a burst without a .go change made appManager stop
\* the recorded child; the stop is over and the replacement is about to start.
C11_Witness ==
  /\ amPc = "stop"
  /\ caller = "restart"
  /\ restartBy = "agg"
  /\ ~burstGo
  /\ lastFlush = "restart"
  /\ stopProcessDone
  /\ stopProcessResult = "nil"

(* C12 as claimed: stopProcess returns a non-nil error only if the forced  *)
(* kill branch fired; when the kill branch did not fire it returns nil,    *)
(* whatever the interrupt call returned.                                   *)
C12_StopErrorOnlyFromKill ==
  (amPc = "stop" /\ stopProcessDone /\ ~sp.kill) => stopProcessResult = "nil"

(* C12 amended: stopProcess returns a non-nil error only if the interrupt  *)
(* call or the kill call failed with an error other than "process already  *)
(* finished"; when the kill branch did not fire and the interrupt call did *)
(* not fail in that way, it returns nil.                                   *)
C12_StopErrorOnlyFromFailedCall ==
  (amPc = "stop" /\ stopProcessDone) =>
     /\ stopProcessResult = "err" => (sp.sig = "err" \/ sp.kerr = "err")
     /\ (~sp.kill /\ sp.sig # "err") => stopProcessResult = "nil"
     /\ (sp.kill /\ sp.kerr # "err" /\ sp.sig # "err") => stopProcessResult = "nil"

\* The interrupt call failed, the process terminated before the hard delay:
\* stopProcess is about to return the error of the interrupt call.
C12_Witness ==
  /\ amPc = "stop"
  /\ stopProcessDone
  /\ sp.sig = "err"
  /\ ~sp.kill
  /\ sp.got = cmd
  /\ stopProcessResult = "err"

\* The calls of the stop protocol that met a process already finished, and
\* those that failed otherwise.
SpCallResults == {sp.sig, sp.kerr}

(* C13: when the interrupt or the kill of stopProcess meets a process that *)
(* has already finished (and no call failed otherwise), stopProcess        *)
(* returns nil and appManager goes on: in the restart case the replacement *)
(* can start, in the rebuild case the build begins; appManager does not    *)
(* return an error.                                                        *)
C13_ProcessDoneIsNil ==
  /\ []((/\ amPc = "stop"
         /\ stopProcessDone
         /\ "done" \in SpCallResults
         /\ "err" \notin SpCallResults) =>
          /\ stopProcessResult = "nil"
          /\ sp.got = cmd
          /\ (caller = "restart" /\ ~ctxDone) => ENABLED (SPReturn(TRUE) /\ StartStep))
  /\ [][(/\ amPc = "stop"
         /\ amPc' # "stop"
         /\ "done" \in SpCallResults
         /\ "err" \notin SpCallResults
         /\ caller = "rebuild") =>
          /\ amPc' = "build"
          /\ ~amErr'
          /\ ctxDone' = ctxDone
          /\ cmd' = NoCmd]_vars

\* The interrupt met a process that had exited on its own; its completion
\* was read from runerr and stopProcess is about to return nil to the
\* restart case.
C13_Witness ==
  /\ amPc = "stop"
  /\ caller = "restart"
  /\ stopProcessDone
  /\ sp.sig = "done"
  /\ sp.err = "done"
  /\ ~sp.kill
  /\ stopProcessResult = "nil"

(* C14: stopProcess on a recorded process always terminates: a process    *)
(* that exits makes it return, one that ignores the interrupt is killed    *)
(* once the hard delay has elapsed, its completion is received and         *)
(* stopProcess returns; the kill is never issued before the hard delay.    *)
C14_StopTerminates ==
  /\ [](sp.kill => sp.t = 2)
  /\ (amPc = "stop") ~> (amPc # "stop")

(* C15 as claimed: once stopProcess has received the completion and        *)
(* cancelled its context, neither the notice nor the kill is executed;     *)
(* and a stopProcess whose completion arrived before the 3 s delay had     *)
(* elapsed made no notice and no kill and returns nil.                     *)
C15_NothingAfterCompletion ==
  /\ []((amPc = "stop" /\ stopProcessDone /\ sp.t = 0) =>
          /\ ~sp.notice
          /\ ~sp.kill
          /\ stopProcessResult = "nil")
  /\ [][(amPc = "stop" /\ amPc' = "stop" /\ sp.g2) =>
          /\ sp'.notice = sp.notice
          /\ sp'.kill = sp.kill]_vars

(* C15 amended: once the context of stopProcess is cancelled its clock is  *)
(* of no effect any more: a notice or a kill is executed only if its own   *)
(* delay had elapsed before the cancellation; so a stopProcess whose       *)
(* completion arrived before the 3 s delay had elapsed made no notice and  *)
(* no kill, and it returns nil unless the interrupt call failed.           *)
C15_NothingAfterCompletionUnlessDue ==
  /\ []((amPc = "stop" /\ sp.notice) => sp.t >= 1)
  /\ []((amPc = "stop" /\ sp.kill) => sp.t = 2)
  /\ []((amPc = "stop" /\ stopProcessDone /\ sp.t = 0) =>
          /\ ~sp.notice
          /\ ~sp.kill
          /\ sp.sig # "err" => stopProcessResult = "nil")
  /\ [][(amPc = "stop" /\ amPc' = "stop" /\ SpCtxDone) =>
          /\ sp'.t = sp.t
          /\ (sp'.notice /\ ~sp.notice) => NoticeDue
          /\ (sp'.kill /\ ~sp.kill) => KillDue]_vars

\* The completion arrived before the 3 s delay had elapsed: all four
\* goroutines have returned, with no notice and no kill.
C15_Witness ==
  /\ amPc = "stop"
  /\ stopProcessDone
  /\ sp.got = cmd
  /\ sp.t = 0
  /\ sp.sig = "nil"
  /\ ~sp.notice
  /\ ~sp.kill
  /\ stopProcessResult = "nil"

\* A step in which appManager receives a completion in its main select.
RunerrStep == amPc = "select" /\ runerr # <<>> /\ runerr' = <<>>

\* Auto-restart is disabled and the last case appManager ran is the runerr
\* case: the child exited on its own and nothing was processed since.
IdleAfterExit ==
  /\ ~shouldRestart
  /\ amPc = "select"
  /\ lastBuild = NoBuild
  /\ restartBy = "none"

(* C16: with auto-restart disabled, appManager handling the exit of the    *)
(* child clears the recorded process and does nothing else: no restart     *)
(* signal, no start, no build, no backoff wait, the backoff duration as it *)
(* was; afterwards it only acts on a rebuild or restart signal of the      *)
(* change aggregator (or returns on cancellation).                         *)
C16_IdleWithoutAutoRestart ==
  /\ [](~shouldRestart =>
          /\ amPc \notin {"backoff", "emit"}
          /\ \A i \in 1..Len(restart) : restart[i] # "backoff")
  /\ [](IdleAfterExit =>
          /\ cmd = NoCmd
          /\ AliveCount = 0
          /\ restart # <<>> => Head(restart) = "agg")
  /\ [][/\ (RunerrStep /\ ~shouldRestart) =>
             /\ cmd' = NoCmd
             /\ amPc' = "select"
             /\ restart' = restart
             /\ secs' = secs
             /\ ~StartStep
             /\ ~amErr'
             /\ ctxDone' = ctxDone
        /\ (IdleAfterExit /\ amVars' # amVars) =>
             \/ ctxDone /\ amPc' = "done"
             \/ FlushStep /\ burstGo /\ amPc' = "gotRebuild"
             \/ restart # <<>> /\ restartBy' = "agg"
        /\ (IdleAfterExit /\ restart' # restart) =>
             \/ FlushStep /\ ~burstGo
             \/ restartBy' = "agg"]_vars

\* The child exited on its own with auto-restart disabled: appManager idles
\* with no process recorded and nothing pending.
C16_Witness ==
  /\ IdleAfterExit
  /\ ~ctxDone
  /\ cmd = NoCmd
  /\ restart = <<>>
  /\ runerr = <<>>
  /\ secs = FloorSecs

(* C17: in test mode a test command that exits non-zero leaves the runner  *)
(* in its loop, with no error and no cancellation, and is not rerun: a     *)
(* test command starts only when the runner receives a reload signal,      *)
(* which after the first run only a file change produces; the runner       *)
(* returns an error only for an error of the command that is no exit       *)
(* error, with the context not cancelled.                                  *)
C17_FailedTestWaitsForChange ==
  /\ [](runPc = "run" => lastTest = "none")
  /\ [](runFailed => lastTest = "other" /\ runPc = "done")
  /\ [][/\ (runPc = "run" /\ lastTest' = "exit" /\ ~testCtxDone) =>
             /\ runPc' = "select"
             /\ ~runFailed'
             /\ ~testCtxDone'
             /\ reload' = reload
             /\ testsRun' = testsRun
        /\ (runPc' = "run" /\ runPc # "run") =>
             /\ runPc = "select"
             /\ reload # <<>>
             /\ reload' = Tail(reload)
             /\ testsRun >= 1 => Head(reload) = "change"
        /\ (runPc = "run" /\ lastTest' = "other" /\ ~testCtxDone) =>
             /\ runFailed'
             /\ runPc' = "done"
        /\ (runPc = "run" /\ lastTest' # "none" /\ testCtxDone) => ~runFailed']_vars

\* The tests failed; the runner waits in its loop, nothing pending.
C17_Witness ==
  /\ runPc = "select"
  /\ lastTest = "exit"
  /\ testsRun >= 1
  /\ reload = <<>>
  /\ ~testCtxDone
  /\ ~runFailed

(* C18: a flush of receiveWatchChanges happens only on the fire of the     *)
(* timer as armed by the most recent classified change: arming leaves the  *)
(* timer running with nothing buffered in its channel (a fire of the       *)
(* earlier arming is stopped or received before Reset), it never blocks,   *)
(* and the flush takes a fire that came after that arming; a burst of two  *)
(* changes gets a single flush.                                            *)
C18_FlushOnLatestArming ==
  /\ [](rwcPc # "drain" /\ rearm # "blocked")
  /\ [](timerActive => timerC = 0 /\ waitNextChange = "set")
  /\ [](burstOpen => (timerActive /\ timerC = 0) \/ (~timerActive /\ timerC = 1))
  /\ [][/\ (burstOpen' /\ (rearm' # rearm \/ timerC' < timerC)) =>
             /\ timerActive'
             /\ timerC' = 0
             /\ burstSends' = 0
        /\ timerC' > timerC => (timerActive /\ ~timerActive' /\ burstOpen)
        /\ FlushStep =>
             /\ ~timerActive
             /\ timerC = 1
             /\ timerC' = 0
             /\ waitNextChange' = "nil"
             /\ burstSends' = 1]_vars

\* A second change of the burst arrived after the timer of the first had
\* fired: the fire was received before Reset and the timer runs again.
C18_Witness ==
  /\ burstOpen
  /\ burstN >= 2
  /\ rearm = "drained"
  /\ timerActive
  /\ timerC = 0
  /\ burstSends = 0

(* C19: the debounce timer of receiveWatchChanges exists, and runs, only   *)
(* while a classified change has been received and not flushed, and        *)
(* buildPending is set only then; the reception of a change with an        *)
(* ignored extension leaves the timer, its channel, buildPending and the   *)
(* task's position as they were and opens no burst.                        *)
C19_TimerOnlyWithPendingChange ==
  /\ [](waitNextChange = "set" <=> burstOpen)
  /\ [](timerActive => burstOpen)
  /\ [](timerC > 0 => burstOpen)
  /\ [](buildPending => (burstOpen /\ burstGo))
  /\ [][(ignoredLast' /\ ~ignoredLast) =>
          /\ UNCHANGED <<rwcPc, buildPending, waitNextChange, timerActive, timerC>>
          /\ UNCHANGED <<burstOpen, burstN, restart, amPc>>]_vars

\* A change with an ignored extension was received with no burst open: no
\* timer exists.
C19_Witness ==
  /\ ignoredLast
  /\ ~burstOpen
  /\ waitNextChange = "nil"
  /\ ~timerActive
  /\ ~buildPending
  /\ rwcPc = "select"

(* C20: in test mode the reload channel holds at most one signal; a test   *)
(* command starts only from the runner's select, so one at a time; and     *)
(* when a test command finishes, exactly one signal is pending if one or   *)
(* more changes were forwarded while it ran, none otherwise: the runner    *)
(* takes it for one further run, which leaves nothing pending.             *)
C20_ReloadCoalesced ==
  /\ [](Len(reload) <= ReloadCap)
  /\ [](runPc = "run" => Len(reload) = Min(changesDuring, 1))
  /\ []((runPc = "select" /\ reload # <<>>) => ENABLED TStart)
  /\ [][/\ (runPc = "run" /\ runPc' = "select") =>
             /\ reload' = reload
             /\ Len(reload') = Min(changesDuring, 1)
        /\ (runPc' = "run" /\ runPc # "run") =>
             /\ runPc = "select"
             /\ Len(reload) = 1
             /\ reload' = <<>>
             /\ changesDuring' = 0]_vars

\* Two or more changes were forwarded while the test command ran; it has
\* finished and one reload signal is pending.
C20_Witness ==
  /\ runPc = "select"
  /\ lastTest \in {"ok", "exit"}
  /\ changesDuring >= 2
  /\ reload = <<"change">>
  /\ ~testCtxDone

(* C21: in test mode the first test run always starts: the runner is      *)
(* never blocked on its initial send on the reload channel, whatever the   *)
(* forwarder has sent by then.                                             *)
C21_FirstRunStarts == runPc = "first" => ENABLED TFirst

\* The processes whose completion is still to come or unread: started, and
\* their completion not yet received from runerr.
Outstanding == {p \in Pids : procs[p] # "free"}

(* C22: while appManager is in its loop, the completions on runerr that    *)
(* are unread or still to come are exactly that of the recorded process    *)
(* (none when no process is recorded); inside stopProcess it is that of    *)
(* the process being stopped until stopProcess has received it, none       *)
(* afterwards; so the completion appManager receives in its select, and    *)
(* the one stopProcess receives, is always that of the recorded process.   *)
C22_CompletionOfRecordedProcess ==
  /\ [](amPc \in {"initBuild", "select", "gotRebuild", "build", "backoff", "emit"} =>
          Outstanding = IF cmd = NoCmd THEN {} ELSE {cmd})
  /\ [](amPc = "stop" =>
          /\ cmd # NoCmd
          /\ Outstanding = IF sp.g2 THEN {} ELSE {cmd}
          /\ sp.g2 => sp.got = cmd)
  /\ [](amPc \notin {"done", "off"} =>
          /\ Len(runerr) <= 1
          /\ runerr # <<>> => (Head(runerr) = cmd /\ procs[cmd] = "reported"))
  /\ [][/\ RunerrStep => (cmd # NoCmd /\ Head(runerr) = cmd /\ cmd' = NoCmd)
        /\ (amPc = "stop" /\ ~sp.g2 /\ amPc' = "stop" /\ sp'.g2) =>
             /\ Head(runerr) = cmd
             /\ runerr' = <<>>
        /\ StartStep => Outstanding = {}]_vars

\* A process started on a restart signal of the aggregator has exited; its
\* completion is the one unread on runerr, and it is the recorded process.
C22_Witness ==
  /\ amPc = "select"
  /\ restartBy = "agg"
  /\ cmd # NoCmd
  /\ runerr = <<cmd>>
  /\ procs[cmd] = "reported"
  /\ Outstanding = {cmd}

\* appManager is back in its loop after a rebuild whose build failed
\* recoverably, and has processed no signal since.
AfterFailedRebuild ==
  /\ amPc = "select"
  /\ lastBuild = [kind |-> "rebuild", out |-> "failed"]

(* C23: in the rebuild case the build begins only with no process          *)
(* recorded or after stopProcess on the recorded one has received its      *)
(* completion and returned nil; no child is alive, none recorded and no    *)
(* completion outstanding while that build is in flight; after a rebuild   *)
(* whose build failed recoverably none is alive or recorded, and one is    *)
(* started only when appManager processes a restart signal.                *)
C23_ChildStoppedBeforeRebuild ==
  /\ [](amPc = "build" =>
          /\ AliveCount = 0
          /\ cmd = NoCmd
          /\ Outstanding = {})
  /\ [](AfterFailedRebuild =>
          /\ AliveCount = 0
          /\ cmd = NoCmd
          /\ Outstanding = {})
  /\ [][/\ (amPc' = "build" /\ amPc # "build") =>
             /\ AliveCount = 0
             /\ \/ amPc = "gotRebuild" /\ cmd = NoCmd
                \/ /\ amPc = "stop"
                   /\ caller = "rebuild"
                   /\ stopProcessDone
                   /\ stopProcessResult = "nil"
                   /\ sp.got = cmd
        /\ (amPc = "gotRebuild" /\ amPc' # "gotRebuild") =>
             IF cmd = NoCmd THEN amPc' = "build"
             ELSE amPc' = "stop" /\ caller' = "rebuild"
        /\ (AfterFailedRebuild /\ (StartStep \/ cmd' # cmd)) =>
             /\ restart # <<>>
             /\ restartBy' = Head(restart)]_vars

\* The rebuild case has stopped the recorded child: its completion was
\* received, stopProcess is about to return nil and the build to begin.
C23_Witness ==
  /\ amPc = "stop"
  /\ caller = "rebuild"
  /\ stopProcessDone
  /\ stopProcessResult = "nil"
  /\ sp.got = cmd
  /\ AliveCount = 0

=============================================================================
